---- MODULE Spec2Model ----
(***************************************************************************)
(* State-machine model of ckanext/oaipmh/harvester.py (OaipmhHarvester).   *)
(*                                                                         *)
(* One harvester instance (a CKAN plugin singleton) serves the gather,     *)
(* fetch and import stages of several harvest sources.  The instance keeps *)
(* the configuration of the source it parsed last in its own attributes.   *)
(* The OAI-PMH endpoint, the catalog and the database session are the      *)
(* environment: every call to them has its outcome drawn from a small set. *)
(*                                                                         *)
(* Optional values (Python None / absent JSON key) are sequences: <<>> is  *)
(* None or absent, <<v>> is the value v.                                   *)
(***************************************************************************)
EXTENDS Integers, Sequences, FiniteSets, TLC

\* ------------------------------------------------------------------ bounds
MaxCalls == 3       \* stage calls made on the harvester instance in one run
MaxObjects == 2     \* HarvestObjects in the database
MaxHeaders == 2     \* headers one listIdentifiers iteration yields
MaxValues == 2      \* values one key of a content map holds
MaxGroups == 2      \* group names one _find_or_create_groups call is given

\* --------------------------------------------------------- source configs
Sources == {"s1", "s2"}

\* json.loads(source_config) gives a dict with these keys present or absent.
JsonObject(u, p, s, f, m, g) ==
    [kind |-> "object", username |-> u, password |-> p, set |-> s,
     filter |-> f, metadata_prefix |-> m, force_http_get |-> g]

CfgFull == JsonObject(<<"u1">>, <<"p1">>, <<"S">>, <<"F">>, <<"oai_ddi">>, <<TRUE>>)
CfgUserOnly == JsonObject(<<"u2">>, <<>>, <<>>, <<>>, <<>>, <<>>)
\* text json.loads rejects with ValueError ('', '{bad')
CfgMalformed ==
    [kind |-> "malformed", username |-> <<>>, password |-> <<>>, set |-> <<>>,
     filter |-> <<>>, metadata_prefix |-> <<>>, force_http_get |-> <<>>]
\* JSON that is no object ('[]', 'null', '5') or config None: TypeError
CfgNonObject ==
    [kind |-> "non_object", username |-> <<>>, password |-> <<>>, set |-> <<>>,
     filter |-> <<>>, metadata_prefix |-> <<>>, force_http_get |-> <<>>]

ConfigsOf(s) ==
    IF s = "s1" THEN {CfgFull}
    ELSE {CfgMalformed, CfgNonObject, CfgUserOnly}

\* dict.get(key, default) on an optional field
Get(opt, default) == IF opt = <<>> THEN default ELSE opt

\* Python truthiness of an optional string
Truthy(opt) == opt # <<>> /\ opt[1] # ""

\* ------------------------------------------------- the harvester instance
\* Before the first successful _set_config the attributes do not exist:
\* reading one raises AttributeError.
NoAttrs ==
    [assigned |-> FALSE, credentials |-> <<>>, user |-> "", set_spec |-> <<>>,
     set_filter |-> <<>>, md_format |-> <<>>, force_http_get |-> <<>>]

\* What the spec documents for a configuration without any key.
DefaultAttrs ==
    [assigned |-> TRUE, credentials |-> <<>>, user |-> "harvest",
     set_spec |-> <<>>, set_filter |-> <<>>, md_format |-> <<"oai_dc">>,
     force_http_get |-> <<FALSE>>]

\* _set_config, a valid JSON object: every attribute is assigned.
AttrsFromObject(c) ==
    [assigned |-> TRUE,
     credentials |-> IF c.username # <<>> /\ c.password # <<>>
                     THEN c.username \o c.password ELSE <<>>,
     user |-> "harvest",
     set_spec |-> Get(c.set, <<>>),
     set_filter |-> Get(c.filter, <<>>),
     md_format |-> Get(c.metadata_prefix, <<"oai_dc">>),
     force_http_get |-> Get(c.force_http_get, <<FALSE>>)]

\* _set_config(self, source_config): the attributes afterwards, and whether
\* an exception left the method.  ValueError is swallowed by `pass`, which
\* leaves the attributes of the previous call; a TypeError is not caught.
SetConfig(attrs, c) ==
    CASE c.kind = "object" -> [raised |-> FALSE, attrs |-> AttrsFromObject(c)]
      [] c.kind = "malformed" -> [raised |-> FALSE, attrs |-> attrs]
      [] OTHER -> [raised |-> TRUE, attrs |-> attrs]

\* The stage fails before it reaches the endpoint or the catalog: _set_config
\* raised, or the attribute the stage reads next was never assigned.
ConfigFailed(attrs, c) ==
    SetConfig(attrs, c).raised \/ ~SetConfig(attrs, c).attrs.assigned

\* What the client is built with, or <<>> when no client was built.
ClientOf(attrs) ==
    <<[credentials |-> attrs.credentials,
       force_http_get |-> attrs.force_http_get]>>

\* ------------------------------------------------------ the OAI-PMH endpoint
\* A request the client sent: <<>> where a parameter does not apply.
Request(verb, prefix, set, identifier) ==
    [verb |-> verb, metadataPrefix |-> prefix, set |-> set,
     identifier |-> identifier]

Header(identifier, setSpec) == [identifier |-> identifier, setSpec |-> setSpec]
H1 == Header("oai:x:1", <<"F">>)
H2 == Header("oai:x:2", <<>>)
Headers == {H1, H2}

\* The listings of an endpoint: an identifier is listed once.
SeqsUpTo(S, n) ==
    {q \in UNION {[1..k -> S] : k \in 0..n} :
        \A i, j \in 1..Len(q) : i # j => q[i] # q[j]}
Listings == SeqsUpTo(Headers, MaxHeaders)

\* How a call to the endpoint can fail: any exception, an HTTPError whose
\* body can be read, an HTTPError whose body cannot (e.fp.read() raises).
Failures == {"error", "http_error", "http_error_unreadable"}

Range(q) == {q[i] : i \in 1..Len(q)}

\* gather_stage line 70: the header is skipped.
Skipped(attrs, h) ==
    Truthy(attrs.set_filter) /\ attrs.set_filter[1] \notin Range(h.setSpec)

\* The headers for which lines 77-82 create a HarvestObject.
Surviving(attrs, hs) == SelectSeq(hs, LAMBDA h : ~Skipped(attrs, h))

\* _identifier_generator: the listIdentifiers request it issues.
ListRequest(attrs) ==
    IF Truthy(attrs.set_spec)
    THEN Request("ListIdentifiers", attrs.md_format, attrs.set_spec, <<>>)
    ELSE Request("ListIdentifiers", attrs.md_format, <<>>, <<>>)

\* The except clauses of gather_stage (lines 85-113) for failure f, after
\* the objects for `created` were saved: the HTTPError clause evaluates
\* e.fp.read() before it saves the gather error.
GatherFailed(attrs, f, created, yielded, trace, client) ==
    [attrs |-> attrs, created |-> created, yielded |-> yielded,
     trace |-> trace, client |-> client,
     ret |-> IF f = "http_error_unreadable" THEN "raised" ELSE "None",
     ids_returned |-> FALSE,
     gather_errors |-> IF f = "http_error_unreadable" THEN 0 ELSE 1]

\* What the endpoint does during one gather_stage call: how identify() ends
\* ("ok" or a failure), the headers listIdentifiers yields, and how the
\* iteration ends ("none": exhausted, or a failure raised after them).
GatherScenario(identify, yielded, fail) ==
    [identify |-> identify, yielded |-> yielded, fail |-> fail]

GatherScenarios ==
    {GatherScenario(f, <<>>, "none") : f \in Failures}
    \cup {GatherScenario("ok", hs, x) :
             hs \in Listings, x \in {"none"} \cup Failures}

\* gather_stage lines 69-83 and 114-118: the iteration over the headers.
GatherIterate(attrs, sc, client) ==
    LET trace == <<Request("Identify", <<>>, <<>>, <<>>), ListRequest(attrs)>>
    IN  IF sc.fail # "none"
        THEN GatherFailed(attrs, sc.fail, Surviving(attrs, sc.yielded),
                          sc.yielded, trace, client)
        ELSE [attrs |-> attrs, created |-> Surviving(attrs, sc.yielded),
              yielded |-> sc.yielded, trace |-> trace, client |-> client,
              ret |-> "list", ids_returned |-> TRUE, gather_errors |-> 0]

\* gather_stage (lines 57-118) on an instance with attributes attrs0 for a
\* source with configuration c.
GatherOutcome(attrs0, c, sc) ==
    LET cfg == SetConfig(attrs0, c)
    IN  IF ConfigFailed(attrs0, c)
        THEN GatherFailed(cfg.attrs, "error", <<>>, <<>>, <<>>, <<>>)
        ELSE IF sc.identify # "ok"
        THEN GatherFailed(cfg.attrs, sc.identify, <<>>, <<>>,
                          <<Request("Identify", <<>>, <<>>, <<>>)>>,
                          ClientOf(cfg.attrs))
        ELSE GatherIterate(cfg.attrs, sc, ClientOf(cfg.attrs))

\* A HarvestObject whose content was never saved.
NoContent == <<>>

\* ---------------------------------------------------------- content maps
\* A Python dict in insertion order: a sequence of entries.  A value is a
\* list of strings, or (scalar) one string held as <<s>>.
Entry(key, value, scalar) == [key |-> key, value |-> value, scalar |-> scalar]

Keys(d) == {d[i].key : i \in 1..Len(d)}
Has(d, k) == k \in Keys(d)
At(d, k) == d[CHOOSE i \in 1..Len(d) : d[i].key = k]

\* d[k] = v: replaces the value in place, or appends a new key.
DictSet(d, e) ==
    IF Has(d, e.key)
    THEN [i \in 1..Len(d) |-> IF d[i].key = e.key THEN e ELSE d[i]]
    ELSE Append(d, e)

Without(d, k) == SelectSeq(d, LAMBDA e : e.key # k)

\* json.dumps: the members of the object in insertion order, each a
\* <<name, is-string, strings>> token.  json.loads: the dict of a text, a
\* repeated name keeping its first place and its last value.
Dumps(d) == [i \in 1..Len(d) |-> <<d[i].key, d[i].scalar, d[i].value>>]

RECURSIVE LoadsFrom(_, _)
LoadsFrom(text, d) ==
    IF text = <<>> THEN d
    ELSE LoadsFrom(Tail(text),
                   DictSet(d, Entry(Head(text)[1], Head(text)[3], Head(text)[2])))

Loads(text) == LoadsFrom(text, <<>>)

\* ------------------------------------------------------- remote records
\* What getRecord returns: the header's datestamp (<<>> when
\* header.datestamp().isoformat() raises), its setSpec, and the map of
\* metadata.getMap() (<<>> when metadata is None, a deleted record).
FullMap ==
    <<Entry("title", <<"T">>, FALSE), Entry("creator", <<"A", "B">>, FALSE),
      Entry("description", <<"D">>, FALSE), Entry("rights", <<"CC-BY">>, FALSE),
      Entry("relation", <<"http://x/1">>, FALSE),
      Entry("identifier", <<"http://x/1">>, FALSE),
      Entry("date", <<"2021-05-01">>, FALSE)>>

RequiredKeys == {"creator", "rights", "relation", "identifier", "date"}

Record(datestamp, setSpec, map) ==
    [datestamp |-> datestamp, setSpec |-> setSpec, map |-> map]

RemoteRecords ==
    {Record(<<"2021-05-02T10:00:00">>, <<"F">>, <<FullMap>>),
     Record(<<>>, <<"F">>, <<FullMap>>),
     Record(<<"2021-05-02T10:00:00">>, <<"F">>, <<>>)}
    \cup {Record(<<"2021-05-02T10:00:00">>, <<"F">>, <<Without(FullMap, k)>>) :
             k \in RequiredKeys}

\* What the endpoint does during one fetch_stage call: getRecord raises
\* (<<>>) or returns a record (<<rec>>).
FetchScenarios == {<<>>} \cup {<<rec>> : rec \in RemoteRecords}

\* fetch_stage lines 218-224: the serialized content of a record, <<>> when
\* building or dumping it raises.
ContentOf(rec) ==
    IF rec.map = <<>> THEN <<>>
    ELSE LET d1 == DictSet(rec.map[1], Entry("set_spec", rec.setSpec, FALSE))
             d2 == IF Truthy(rec.datestamp)
                   THEN DictSet(d1, Entry("metadata_modified",
                                          rec.datestamp, TRUE))
                   ELSE d1
         IN  <<Dumps(d2)>>

\* The outcome of a fetch_stage or import_stage call: the attributes of the
\* instance afterwards, the return value, the object errors it saved, the
\* requests it sent and the client it built.
StageFailed(attrs, message, trace, client) ==
    [attrs |-> attrs, ret |-> FALSE, new_errors |-> <<message>>,
     trace |-> trace, client |-> client, stored |-> FALSE,
     content |-> NoContent, package |-> <<>>, current |-> FALSE,
     submitted |-> FALSE]

\* A fetch_stage that asks for the record a second time before it gives up.
GetRecordFailedRetry(attrs, guid, trace, client) ==
    StageFailed(attrs, "Get record failed for " \o guid \o "!",
                trace \o trace, client)

\* fetch_stage lines 188-207: getRecord raised.
GetRecordFailed(attrs, guid, trace, client) ==
    StageFailed(attrs, "Get record failed for " \o guid \o "!", trace, client)

\* fetch_stage (lines 177-247) for the object with this guid.
FetchOutcome(attrs0, c, guid, sc) ==
    LET cfg == SetConfig(attrs0, c)
        trace == <<Request("GetRecord", cfg.attrs.md_format, <<>>, <<guid>>)>>
        client == ClientOf(cfg.attrs)
        content == ContentOf(sc[1])
    IN  IF ConfigFailed(attrs0, c)
        THEN StageFailed(cfg.attrs, "Exception in fetch stage for " \o guid,
                         <<>>, <<>>)
        ELSE IF sc = <<>>
        THEN GetRecordFailed(cfg.attrs, guid, trace, client)
        ELSE IF content = <<>>
        THEN StageFailed(cfg.attrs, "Dumping the metadata failed!",
                         trace, client)
        ELSE [attrs |-> cfg.attrs, ret |-> TRUE, new_errors |-> <<>>,
              trace |-> trace, client |-> client, stored |-> TRUE,
              content |-> content[1], package |-> <<>>,
              current |-> FALSE, submitted |-> FALSE]

\* ------------------------------------------------------ the field mapper
\* ', '.join(values)
RECURSIVE Join(_)
Join(values) ==
    IF values = <<>> THEN ""
    ELSE IF Len(values) = 1 THEN values[1]
    ELSE values[1] \o ", " \o Join(Tail(values))

\* content[key] joined; <<>> when content[key] raises KeyError.
JoinKey(content, key) ==
    IF Has(content, key) THEN <<Join(At(content, key).value)>> ELSE <<>>

\* An _extract_author that takes a missing creator for an empty list.
ExtractAuthorOrEmpty(content) ==
    IF Has(content, "creator") THEN <<Join(At(content, "creator").value)>>
    ELSE <<"">>

\* An _extract_license_id that takes the first of the rights only.
ExtractLicenseIdFirst(content) ==
    IF Has(content, "rights") /\ At(content, "rights").value # <<>>
    THEN <<At(content, "rights").value[1]>>
    ELSE <<>>

\* _extract_author and the other extraction helpers (lines 386-399)
ExtractAuthor(content) == JoinKey(content, "creator")
ExtractLicenseId(content) == JoinKey(content, "rights")
ExtractCreatedDate(content) == JoinKey(content, "date")
ExtractRelation(content) == JoinKey(content, "relation")
ExtractIdentifier(content) == JoinKey(content, "identifier")

\* import_stage line 336: content['metadata_modified']
ExtractModified(content) ==
    IF Has(content, "metadata_modified")
    THEN <<At(content, "metadata_modified").value[1]>> ELSE <<>>

\* _get_mapping: ckan field -> oai field
Mapping ==
    [title |-> "title", notes |-> "description", maintainer |-> "publisher",
     maintainer_email |-> "maintainer_email", url |-> "relation"]

MappingValues == {Mapping[f] : f \in DOMAIN Mapping}

\* import_stage lines 302-306: content[oai_field][0], or the field is
\* skipped (<<>>) on KeyError and IndexError.
Mapped(content, ckan_field) ==
    IF Has(content, Mapping[ckan_field])
       /\ At(content, Mapping[ckan_field]).value # <<>>
    THEN <<At(content, Mapping[ckan_field]).value[1]>>
    ELSE <<>>

\* ckan.lib.munge.munge_title_to_name on the identifiers of the endpoint
\* and on the names of the series
MungeTitleToName(guid) ==
    CASE guid = "oai:x:1" -> "oai-x-1"
      [] guid = "oai:x:2" -> "oai-x-2"
      [] guid = "Series A" -> "series-a"
      [] guid = "Series B" -> "series-b"
      [] OTHER -> guid

\* ckan.lib.munge.munge_tag on the tags of the records
MungeTag(tag) ==
    CASE tag = "Dataset" -> "dataset"
      [] tag = "Climate" -> "climate"
      [] tag = "Ocean" -> "ocean"
      [] OTHER -> tag

\* str.split(';') on the scalar values of the records
SplitSemicolon(s) ==
    CASE s = "Climate;Ocean" -> <<"Climate", "Ocean">>
      [] OTHER -> <<s>>

\* dateutil's parse(value).replace(tzinfo=None).isoformat(); <<>> when parse
\* raises ValueError.
ParseDate(s) ==
    CASE s = "2021-05-01" -> <<"2021-05-01T00:00:00">>
      [] s = "2020-01-01T00:00:00+02:00" -> <<"2020-01-01T00:00:00">>
      [] OTHER -> <<>>

EndsWith(s, suffix) ==
    Len(s) >= Len(suffix)
    /\ SubSeq(s, Len(s) - Len(suffix) + 1, Len(s)) = suffix

\* tag[:100]
Truncate(s, n) == IF Len(s) > n THEN SubSeq(s, 1, n) ELSE s

TagLimit == 100

\* A loop that keeps the last element of a list instead of the first.
LastOrNone(e) ==
    IF e.value = <<>> \/ e.value[Len(e.value)] = "" THEN <<>>
    ELSE <<e.value[Len(e.value)]>>

\* _extract_tags_and_extras lines 413-416: the first element of a non-empty
\* list, None for an empty list and for a first element (or a string) that
\* is empty.
FirstOrNone(e) ==
    IF e.value = <<>> \/ e.value[1] = "" THEN <<>>
    ELSE <<e.value[1]>>

\* _extract_tags_and_extras, the loop of lines 404-427 over the entries
RECURSIVE TagsAndExtrasFrom(_, _, _)
TagsAndExtrasFrom(entries, tags, extras) ==
    IF entries = <<>> THEN [tags |-> tags, extras |-> extras]
    ELSE LET e == Head(entries)
             rest == Tail(entries)
             v == FirstOrNone(e)
         IN  IF e.key \in MappingValues
             THEN TagsAndExtrasFrom(rest, tags, extras)
             ELSE IF e.key \in {"type", "subject"}
             THEN TagsAndExtrasFrom(rest,
                      tags \o (IF e.scalar THEN SplitSemicolon(e.value[1])
                               ELSE e.value),
                      extras)
             ELSE IF EndsWith(e.key, "date") /\ v # <<>>
             THEN IF ParseDate(v[1]) = <<>>
                  THEN TagsAndExtrasFrom(rest, tags, extras)
                  ELSE TagsAndExtrasFrom(rest, tags,
                           Append(extras, [key |-> e.key,
                                           value |-> ParseDate(v[1])]))
             ELSE TagsAndExtrasFrom(rest, tags,
                      Append(extras, [key |-> e.key, value |-> v]))

\* _extract_tags_and_extras (lines 401-431)
ExtractTagsAndExtras(content) ==
    LET r == TagsAndExtrasFrom(content, <<>>, <<>>)
    IN  [tags |-> [i \in 1..Len(r.tags) |->
                      [name |-> MungeTag(Truncate(r.tags[i], TagLimit))]],
         extras |-> r.extras]

\* import_stage lines 294-353: the package_dict built from the content of
\* an object, <<>> when a lookup raises KeyError.
PackageDict(content, guid, owner_org) ==
    IF \/ ExtractAuthor(content) = <<>>
       \/ ExtractLicenseId(content) = <<>>
       \/ ExtractRelation(content) = <<>>
       \/ ExtractModified(content) = <<>>
       \/ ExtractCreatedDate(content) = <<>>
       \/ ExtractIdentifier(content) = <<>>
    THEN <<>>
    ELSE LET te == ExtractTagsAndExtras(content) IN
         <<[id |-> MungeTitleToName(guid),
            name |-> MungeTitleToName(guid),
            title |-> Mapped(content, "title"),
            notes |-> Mapped(content, "notes"),
            maintainer |-> Mapped(content, "maintainer"),
            maintainer_email |-> Mapped(content, "maintainer_email"),
            url |-> Mapped(content, "url"),
            author |-> ExtractAuthor(content)[1],
            owner_org |-> owner_org,
            license_id |-> ExtractLicenseId(content)[1],
            license |-> ExtractLicenseId(content)[1],
            resources |-> <<[name |-> "Figshare",
                             url |-> ExtractRelation(content)[1]]>>,
            tags |-> te.tags,
            extras |-> te.extras,
            modified |-> ExtractModified(content)[1],
            issued |-> ExtractCreatedDate(content)[1],
            source_identifier |-> ExtractIdentifier(content)[1],
            identifier |-> ExtractRelation(content)[1],
            references |-> ExtractRelation(content)[1],
            groups |-> <<>>]>>

\* What the catalog and the session do during one import_stage call:
\* package_show returns ("ok") or raises; _create_or_update_package of the
\* harvest base class creates or updates the package and flags the object
\* as current ("ok"), reports a failure without raising ("none") or raises;
\* Session.commit() succeeds or raises, after which what the call wrote
\* either was saved already by the helper ("raise_saved") or is discarded.
ImportScenario(show, create, commit) ==
    [package_show |-> show, create |-> create, commit |-> commit]

ImportScenarios ==
    {ImportScenario("raise", "raise", "ok"), ImportScenario("ok", "raise", "ok")}
    \cup {ImportScenario("ok", create, commit) :
             create \in {"ok", "none"},
             commit \in {"ok", "raise_saved", "raise_discarded"}}

OwnerOrg == "org-1"

ShowRequest == Request("package_show", <<>>, <<>>, <<>>)
CreateRequest == Request("package_create_or_update", <<>>, <<>>, <<>>)
CommitRequest == Request("commit", <<>>, <<>>, <<>>)

ImportError(guid) == "Exception in fetch stage for " \o guid

\* import_stage lines 355-375: the package_dict is submitted and the session
\* committed.  `package` is the dict handed to _create_or_update_package,
\* also when that call raises.
SubmitOutcome(attrs, guid, pkg, sc) ==
    IF sc.create = "raise"
    THEN [StageFailed(attrs, ImportError(guid),
                      <<ShowRequest, CreateRequest>>, <<>>)
             EXCEPT !.package = pkg]
    ELSE [attrs |-> attrs,
          ret |-> sc.commit = "ok",
          new_errors |-> IF sc.commit = "ok" THEN <<>>
                         ELSE <<ImportError(guid)>>,
          trace |-> <<ShowRequest, CreateRequest, CommitRequest>>,
          client |-> <<>>, stored |-> FALSE, content |-> NoContent,
          package |-> pkg,
          current |-> sc.create = "ok" /\ sc.commit # "raise_discarded",
          submitted |-> TRUE]

\* import_stage (lines 273-375) for object o.
ImportOutcome(attrs0, c, o, sc) ==
    LET cfg == SetConfig(attrs0, c)
        content == Loads(o.content)
        pkg == PackageDict(content, o.guid, OwnerOrg)
    IN  IF o.content = NoContent
        THEN StageFailed(attrs0, "No harvest object received", <<>>, <<>>)
        ELSE IF ConfigFailed(attrs0, c)
        THEN StageFailed(cfg.attrs, ImportError(o.guid), <<>>, <<>>)
        ELSE IF ExtractAuthor(content) = <<>>
        THEN StageFailed(cfg.attrs, ImportError(o.guid), <<>>, <<>>)
        ELSE IF sc.package_show = "raise"
        THEN StageFailed(cfg.attrs, ImportError(o.guid), <<ShowRequest>>, <<>>)
        ELSE IF pkg = <<>>
        THEN StageFailed(cfg.attrs, ImportError(o.guid), <<ShowRequest>>, <<>>)
        ELSE SubmitOutcome(cfg.attrs, o.guid, pkg, sc)

\* ---------------------------------------------- the maps the mapper reads
\* What metadata.getMap() gives for the records of a Dublin Core source: a
\* list of strings per element.  `type` and `subject` also come as one string.
TextKeys ==
    {"title", "creator", "description", "publisher", "maintainer_email",
     "rights", "relation", "identifier", "language"}
DateKeys == {"date", "coverage_date"}
TagKeys == {"type", "subject"}

Texts(k) == {k \o "-1", k \o "-2"}
Dates == {"2021-05-01", "2020-01-01T00:00:00+02:00", "someday"}
TagTexts == {"Dataset", "Climate"}
TagStrings == {"Climate;Ocean", "Dataset", ""}

ValueLists(S) == SeqsUpTo(S, MaxValues)

BaseMap ==
    <<Entry("title", <<"title-1", "title-2">>, FALSE),
      Entry("creator", <<"creator-1", "creator-2">>, FALSE),
      Entry("subject", <<"Climate;Ocean">>, TRUE),
      Entry("description", <<"description-1">>, FALSE),
      Entry("publisher", <<"publisher-1">>, FALSE),
      Entry("date", <<"2021-05-01">>, FALSE),
      Entry("type", <<"Dataset">>, FALSE),
      Entry("identifier", <<"identifier-1">>, FALSE),
      Entry("language", <<"language-1">>, FALSE),
      Entry("relation", <<"relation-1", "relation-2">>, FALSE),
      Entry("rights", <<"rights-1">>, FALSE),
      Entry("coverage_date", <<"2020-01-01T00:00:00+02:00">>, FALSE),
      Entry("maintainer_email", <<"maintainer_email-1">>, FALSE)>>

\* Another value for one key of the map.
Variants ==
    UNION {{Entry(k, v, FALSE) : v \in ValueLists(Texts(k))} : k \in TextKeys}
    \cup {Entry(k, v, FALSE) : k \in DateKeys, v \in ValueLists(Dates)}
    \cup {Entry(k, v, FALSE) : k \in TagKeys, v \in ValueLists(TagTexts)}
    \cup {Entry(k, <<s>>, TRUE) : k \in TagKeys, s \in TagStrings}
    \cup {Entry("language", <<"">>, FALSE)}

\* The maps: BaseMap, BaseMap with one value changed, BaseMap less one key.
RecordMaps ==
    {BaseMap}
    \cup {DictSet(BaseMap, e) : e \in Variants}
    \cup {Without(BaseMap, k) : k \in Keys(BaseMap)}

\* The records carrying them, and one whose datestamp cannot be obtained.
MapperRecords ==
    {Record(<<"2021-05-02T10:00:00">>, <<"F">>, <<m>>) : m \in RecordMaps}
    \cup {Record(<<>>, <<"F">>, <<BaseMap>>),
          Record(<<"2021-05-02T10:00:00">>, <<>>, <<BaseMap>>)}

\* ------------------------------------------------------------------ state
VARIABLES
    config,         \* source -> its configuration (immutable)
    self,           \* the attributes of the harvester instance
    objects,        \* the HarvestObjects, in creation order; the id is the index
                    \* (`record`: what getRecord returned to the fetch_stage
                    \* call that stored the content)
    gather_errors,  \* source -> number of HarvestGatherErrors of its job
    packages,       \* the ids of the packages in the catalog
    last,           \* what the last stage call did and returned (`create`:
                    \* how its _create_or_update_package call ended)
    calls,          \* stage calls made so far
    groups,         \* the groups in the catalog
    workers         \* the _find_or_create_groups calls in progress

vars ==
    <<config, self, objects, gather_errors, packages, last, calls, groups,
      workers>>

\* HarvestObject(guid=..., job=...) as line 77 creates it.
NewObject(guid, s) ==
    [guid |-> guid, source |-> s, content |-> NoContent, current |-> FALSE,
     package_id |-> <<>>, errors |-> <<>>,
     fetched |-> FALSE, submitted |-> <<>>, record |-> <<>>]

NoCall ==
    [stage |-> "none", source |-> "", object |-> 0, ret |-> "", ids |-> <<>>,
     ids_returned |-> FALSE, yielded |-> <<>>, trace |-> <<>>,
     client |-> <<>>, package |-> <<>>,
     new_errors |-> <<>>, gather_errors |-> 0, content_before |-> NoContent,
     current_before |-> FALSE, cause |-> "", record |-> <<>>,
     record_before |-> <<>>, create |-> ""]

\* No _find_or_create_groups call is in progress: import_stage sets
\* package_dict['groups'] to [] (lines 346-347) and never calls it.
Workers == {"w1", "w2"}
IdleWorker == [pc |-> "idle", names |-> <<>>, next |-> 1, group_ids |-> <<>>]

Init ==
    /\ config \in [Sources -> UNION {ConfigsOf(s) : s \in Sources}]
    /\ \A s \in Sources : config[s] \in ConfigsOf(s)
    /\ self = NoAttrs
    /\ objects = <<>>
    /\ gather_errors = [s \in Sources |-> 0]
    /\ packages = {}
    /\ last = NoCall
    /\ calls = 0
    /\ groups = {}
    /\ workers = [w \in Workers |-> IdleWorker]

gather_stage(s) ==
    /\ calls < MaxCalls
    /\ \E sc \in GatherScenarios :
           LET r == GatherOutcome(self, config[s], sc)
               n == Len(objects)
               ids == [i \in 1..Len(r.created) |-> n + i]
           IN  /\ n + Len(r.created) <= MaxObjects
               /\ self' = r.attrs
               /\ objects' = objects \o
                      [i \in 1..Len(r.created) |->
                          NewObject(r.created[i].identifier, s)]
               /\ gather_errors' =
                      [gather_errors EXCEPT ![s] = @ + r.gather_errors]
               /\ last' = [NoCall EXCEPT
                      !.stage = "gather", !.source = s, !.ret = r.ret,
                      !.ids = ids, !.ids_returned = r.ids_returned,
                      !.yielded = r.yielded, !.trace = r.trace,
                      !.client = r.client,
                      !.gather_errors = r.gather_errors,
                      !.cause = IF r.ret = "list" THEN ""
                                ELSE IF ConfigFailed(self, config[s])
                                THEN "config"
                                ELSE IF Len(r.trace) = 1 THEN "identify"
                                ELSE "listIdentifiers"]
    /\ calls' = calls + 1
    /\ UNCHANGED <<config, packages, groups, workers>>

\* A fetch_stage that adds the new dump to the content the object holds.
fetch_stage_append(i) ==
    /\ calls < MaxCalls
    /\ \E sc \in FetchScenarios :
           LET o == objects[i]
               r == FetchOutcome(self, config[o.source], o.guid, sc)
           IN  /\ self' = r.attrs
               /\ objects' = [objects EXCEPT
                      ![i].content = IF r.stored THEN @ \o r.content ELSE @,
                      ![i].errors = @ \o r.new_errors,
                      ![i].fetched = @ \/ r.ret,
                      ![i].record = IF r.stored THEN sc ELSE @]
               /\ last' = [NoCall EXCEPT
                      !.stage = "fetch", !.source = o.source, !.object = i,
                      !.ret = IF r.ret THEN "True" ELSE "False",
                      !.trace = r.trace, !.client = r.client,
                      !.new_errors = r.new_errors,
                      !.content_before = o.content,
                      !.record = IF r.trace = <<>> THEN <<>> ELSE sc,
                      !.record_before = o.record,
                      !.cause = IF r.ret THEN ""
                                ELSE IF ConfigFailed(self, config[o.source])
                                THEN "config"
                                ELSE IF sc = <<>> THEN "getRecord"
                                ELSE "dump"]
    /\ calls' = calls + 1
    /\ UNCHANGED <<config, gather_errors, packages, groups, workers>>

\* fetch_stage (lines 163-247) on object i.
fetch_stage(i) ==
    /\ calls < MaxCalls
    /\ \E sc \in FetchScenarios :
           LET o == objects[i]
               r == FetchOutcome(self, config[o.source], o.guid, sc)
           IN  /\ self' = r.attrs
               /\ objects' = [objects EXCEPT
                      ![i].content = IF r.stored THEN r.content ELSE @,
                      ![i].errors = @ \o r.new_errors,
                      ![i].fetched = @ \/ r.ret,
                      ![i].record = IF r.stored THEN sc ELSE @]
               /\ last' = [NoCall EXCEPT
                      !.stage = "fetch", !.source = o.source, !.object = i,
                      !.ret = IF r.ret THEN "True" ELSE "False",
                      !.trace = r.trace, !.client = r.client,
                      !.new_errors = r.new_errors,
                      !.content_before = o.content,
                      !.record = IF r.trace = <<>> THEN <<>> ELSE sc,
                      !.record_before = o.record,
                      !.cause = IF r.ret THEN ""
                                ELSE IF ConfigFailed(self, config[o.source])
                                THEN "config"
                                ELSE IF sc = <<>> THEN "getRecord"
                                ELSE "dump"]
    /\ calls' = calls + 1
    /\ UNCHANGED <<config, gather_errors, packages, groups, workers>>

import_stage(i) ==
    /\ calls < MaxCalls
    /\ \E sc \in ImportScenarios :
           LET o == objects[i]
               r == ImportOutcome(self, config[o.source], o, sc)
           IN  /\ self' = r.attrs
               /\ objects' = [objects EXCEPT
                      ![i].errors = @ \o r.new_errors,
                      ![i].current = @ \/ r.current,
                      ![i].package_id = IF r.current THEN <<r.package[1].id>>
                                        ELSE @,
                      ![i].submitted = IF r.current THEN <<r.ret>> ELSE @]
               /\ packages' = IF r.current
                              THEN packages \cup {r.package[1].id}
                              ELSE packages
               /\ last' = [NoCall EXCEPT
                      !.stage = "import", !.source = o.source, !.object = i,
                      !.ret = IF r.ret THEN "True" ELSE "False",
                      !.trace = r.trace,
                      !.new_errors = r.new_errors, !.package = r.package,
                      !.content_before = o.content,
                      !.current_before = o.current,
                      !.create = IF CreateRequest \in Range(r.trace)
                                 THEN sc.create ELSE "",
                      !.cause = IF r.submitted THEN "submitted"
                                ELSE IF o.content = NoContent THEN "content"
                                ELSE IF ConfigFailed(self, config[o.source])
                                THEN "config"
                                ELSE IF r.trace = <<>> THEN "before_show"
                                ELSE IF sc.package_show = "raise"
                                THEN "package_show"
                                ELSE IF CreateRequest \in Range(r.trace)
                                THEN "create"
                                ELSE "after_show"]
    /\ calls' = calls + 1
    /\ UNCHANGED <<config, gather_errors, groups, workers>>

Next ==
    \/ \E s \in Sources : gather_stage(s)
    \/ \E i \in 1..Len(objects) : fetch_stage(i)
    \/ \E i \in 1..Len(objects) : import_stage(i)

Spec == Init /\ [][Next]_vars

\* --------------------------------------------------- the mapper on its own
\* The last call of a run: the calls before it gathered one object and
\* fetched a record of MapperRecords into it.
MapperInit ==
    /\ config \in [Sources -> UNION {ConfigsOf(s) : s \in Sources}]
    /\ \A s \in Sources : config[s] \in ConfigsOf(s)
    /\ self = NoAttrs
    /\ \E rec \in MapperRecords, s \in Sources :
           objects = <<[NewObject("oai:x:1", s) EXCEPT
                           !.content = ContentOf(rec)[1],
                           !.fetched = TRUE, !.record = <<rec>>]>>
    /\ gather_errors = [s \in Sources |-> 0]
    /\ packages = {}
    /\ last = NoCall
    /\ calls = MaxCalls - 1
    /\ groups = {}
    /\ workers = [w \in Workers |-> IdleWorker]

\* _extract_tags_and_extras(content) on the content of object i, as line 330
\* calls it.
extract_tags_and_extras(i) ==
    /\ calls < MaxCalls
    /\ last' = [NoCall EXCEPT
           !.stage = "extract_tags_and_extras", !.source = objects[i].source,
           !.object = i, !.content_before = objects[i].content,
           !.package = <<ExtractTagsAndExtras(Loads(objects[i].content))>>]
    /\ calls' = calls + 1
    /\ UNCHANGED <<config, self, objects, gather_errors, packages, groups,
                   workers>>

MapperNext ==
    \/ \E i \in 1..Len(objects) : import_stage(i)
    \/ \E i \in 1..Len(objects) : extract_tags_and_extras(i)

MapperSpec == MapperInit /\ [][MapperNext]_vars

\* ================================================================ claims
Stages == {"gather", "fetch", "import"}

\* The object of the last fetch_stage or import_stage call.
LastObject == objects[last.object]

\* The filter, and the attributes, a source's own configuration asks for: a
\* configuration that is no JSON object asks for nothing.
OwnAttrs(c) == IF c.kind = "object" THEN AttrsFromObject(c) ELSE DefaultAttrs

PassesFilter(c, h) ==
    ~Truthy(OwnAttrs(c).set_filter)
    \/ OwnAttrs(c).set_filter[1] \in Range(h.setSpec)

MissingRequired(text) == \E k \in RequiredKeys : ~Has(Loads(text), k)

\* C1: an object is current only if a fetch_stage call on it returned True
\* and stored its content and the import_stage call that submitted its
\* package returned True; import_stage on an object without content saves an
\* object error, returns False and never submits a package.
C1_CurrentOnlyAfterFetchAndImport ==
    /\ \A i \in 1..Len(objects) :
          objects[i].current =>
              /\ objects[i].fetched
              /\ objects[i].content # NoContent
              /\ objects[i].submitted = <<TRUE>>
    /\ (last.stage = "import" /\ last.content_before = NoContent) =>
          /\ last.ret = "False"
          /\ last.new_errors # <<>>
          /\ CreateRequest \notin Range(last.trace)

\* C2: when gather_stage returns a list, its ids are, in listing order, one
\* object per yielded header that passes the source's configured filter (all
\* headers when the source configures none), with the header's identifier as
\* guid.
C2_GatherIdsMatchFilteredHeaders ==
    (last.stage = "gather" /\ last.ret = "list") =>
        LET expected == SelectSeq(last.yielded,
                LAMBDA h : PassesFilter(config[last.source], h))
        IN  /\ Len(last.ids) = Len(expected)
            /\ \A k \in 1..Len(last.ids) :
                  /\ last.ids[k] \in 1..Len(objects)
                  /\ objects[last.ids[k]].guid = expected[k].identifier

\* C3: when listIdentifiers raises after k >= 1 surviving headers were
\* processed, the k objects stay in the database, their ids reach the caller,
\* exactly one gather error is saved and no object error is saved on them.
C3_PartialGatherKeepsWorkItems ==
    (last.stage = "gather" /\ last.cause = "listIdentifiers"
        /\ Len(last.ids) >= 1) =>
        /\ \A k \in 1..Len(last.ids) :
              /\ last.ids[k] \in 1..Len(objects)
              /\ objects[last.ids[k]].errors = <<>>
        /\ last.ids_returned
        /\ last.gather_errors = 1

\* C4: gather_stage calls identify() before any listIdentifiers; when
\* identify() fails there is no listIdentifiers request, no object is
\* created, exactly one gather error is saved and None is returned.
C4_IdentifyFirst ==
    /\ last.stage = "gather" =>
          \A k \in 1..Len(last.trace) :
              last.trace[k].verb = "ListIdentifiers" =>
                  \E j \in 1..(k - 1) : last.trace[j].verb = "Identify"
    /\ (last.stage = "gather" /\ last.cause = "identify") =>
          /\ \A k \in 1..Len(last.trace) :
                last.trace[k].verb # "ListIdentifiers"
          /\ last.ids = <<>>
          /\ last.gather_errors = 1
          /\ last.ret = "None"

\* C5: when getRecord fails in fetch_stage, exactly one getRecord request was
\* sent, exactly one object error 'Get record failed for <guid>!' is saved,
\* False is returned and the content of the object is what it was before the
\* call.
C5_GetRecordFailure ==
    (last.stage = "fetch" /\ last.cause = "getRecord") =>
        /\ Cardinality({k \in 1..Len(last.trace) :
                           last.trace[k].verb = "GetRecord"}) = 1
        /\ last.new_errors =
               <<"Get record failed for " \o LastObject.guid \o "!">>
        /\ SubSeq(LastObject.errors,
                  Len(LastObject.errors), Len(LastObject.errors))
               = last.new_errors
        /\ last.ret = "False"
        /\ LastObject.content = last.content_before

\* C5 witness: a fetch_stage call succeeded and stored content on an object
\* on which an earlier call had failed in getRecord without storing any.
C5_Witness ==
    /\ last.stage = "fetch" /\ last.ret = "True"
    /\ last.content_before = NoContent
    /\ LastObject.content # NoContent
    /\ LastObject.errors =
           <<"Get record failed for " \o LastObject.guid \o "!">>

\* C6: no stage call raises; every fetch_stage or import_stage call that
\* returns False saved an object error, every gather_stage call that returns
\* None saved a gather error.
C6_NoFailureEscapes ==
    last.stage \in Stages =>
        /\ last.ret # "raised"
        /\ last.ret = "False" => last.new_errors # <<>>
        /\ (last.stage = "gather" /\ last.ret # "list") =>
               last.gather_errors >= 1

\* C7: fetch_stage of a record whose datestamp cannot be obtained returns
\* True with content that has set_spec and no metadata_modified, and
\* import_stage of content with every required key and no metadata_modified
\* does not fail between package_show and the submission of the package.
C7_MissingDatestampIsNotFatal ==
    /\ (last.stage = "fetch" /\ last.ret = "True") =>
          Has(Loads(LastObject.content), "set_spec")
    /\ (last.stage = "import" /\ last.content_before # NoContent
           /\ ~MissingRequired(last.content_before)
           /\ ~Has(Loads(last.content_before), "metadata_modified")) =>
          last.cause # "after_show"

\* C8: a stage run for a source whose configuration is malformed runs with
\* the default configuration, and does not fail because of it.
C8_MalformedConfigGivesDefaults ==
    (last.stage \in Stages /\ config[last.source].kind = "malformed"
        /\ ~(last.stage = "import" /\ last.content_before = NoContent)) =>
        /\ self = DefaultAttrs
        /\ last.cause # "config"

\* C9: the client of a fetch_stage call is built from the credentials and
\* the HTTP method of the object's own source, and its request names the
\* metadata prefix of that source, whatever was processed before.
C9_OwnConfigurationOnly ==
    (last.stage = "fetch" /\ last.client # <<>>) =>
        /\ last.client = ClientOf(OwnAttrs(config[last.source]))
        /\ \A k \in 1..Len(last.trace) :
              last.trace[k].metadataPrefix
                  = OwnAttrs(config[last.source]).md_format

\* C10 (state part): import_stage of content that lacks a required key saves
\* an object error, returns False, submits nothing and leaves the current
\* flag as it was.
C10_MissingKeyFails ==
    (last.stage = "import" /\ last.content_before # NoContent
        /\ MissingRequired(last.content_before)) =>
        /\ last.ret = "False"
        /\ last.new_errors # <<>>
        /\ CreateRequest \notin Range(last.trace)
        /\ CommitRequest \notin Range(last.trace)
        /\ last.package = <<>>
        /\ LastObject.current = last.current_before

\* What a caller and the collaborators see of a stage call: everything but
\* the attributes the instance is left with.
Observable(r) == [r EXCEPT !.attrs = NoAttrs]

\* Two outcomes that show the same and leave instances that the next call
\* for a source with configuration c cannot tell apart.
SameResult(r1, r2, c) ==
    /\ Observable(r1) = Observable(r2)
    /\ SetConfig(r1.attrs, c) = SetConfig(r2.attrs, c)

\* C10 (step part): such a call changes no other object, no package and no
\* gather error, and every later stage call of the same job has the result
\* it would have had without it (which needs a look only where the call
\* changed the attributes of the instance).
C10_OthersUnaffected ==
    (last'.stage = "import" /\ last'.content_before # NoContent
        /\ MissingRequired(last'.content_before)) =>
        LET c == config[last'.source]
        IN  /\ Len(objects') = Len(objects)
            /\ \A j \in 1..Len(objects) :
                  j # last'.object => objects'[j] = objects[j]
            /\ packages' = packages
            /\ gather_errors' = gather_errors
            /\ SetConfig(self', c) = SetConfig(self, c)
            /\ \A sc \in GatherScenarios :
                  self' # self =>
                      SameResult(GatherOutcome(self', c, sc),
                                 GatherOutcome(self, c, sc), c)
            /\ \A j \in 1..Len(objects) :
                  (self' # self /\ j # last'.object
                      /\ objects[j].source = last'.source) =>
                      /\ \A sc \in FetchScenarios :
                            SameResult(
                                FetchOutcome(self', c, objects[j].guid, sc),
                                FetchOutcome(self, c, objects[j].guid, sc), c)
                      /\ \A sc \in ImportScenarios :
                            SameResult(
                                ImportOutcome(self', c, objects[j], sc),
                                ImportOutcome(self, c, objects[j], sc), c)

\* C10: import_stage of content that lacks one of creator, rights, relation,
\* identifier, date fails for that object alone: an object error, False, no
\* submission, and every other object of the job unaffected.
C10_MissingKeyFailsAlone == []C10_MissingKeyFails /\ [][C10_OthersUnaffected]_vars

\* C10 witness: such a call was made while the job holds another object.
C10_Witness ==
    /\ last.stage = "import" /\ last.content_before # NoContent
    /\ MissingRequired(last.content_before)
    /\ last.ret = "False"
    /\ \E j \in 1..Len(objects) :
          j # last.object /\ objects[j].source = last.source

\* ------------------------------------------------- _find_or_create_groups
\* content['series'] of the records that belong to a series
GroupNames == {"Series A", "Series B"}

\* lines 476-480
GroupDict(group_name) ==
    [id |-> group_name, name |-> MungeTitleToName(group_name),
     title |-> group_name]

\* group_show(data_dict): the groups the catalog finds for data_dict['id'],
\* taken as an id or as a name; none makes the action raise.
GroupShown(gs, d) == {g \in gs : g.id = d.id \/ g.name = d.id}

\* group_create(data_dict) raises when the id or the name is taken.
GroupCreateRejected(gs, d) == \E g \in gs : g.id = d.id \/ g.name = d.name

\* line 487 and the next turn of the loop of line 475
Advance(wk, id) ==
    IF wk.next = Len(wk.names)
    THEN [wk EXCEPT !.group_ids = Append(@, id), !.pc = "done"]
    ELSE [wk EXCEPT !.group_ids = Append(@, id), !.next = @ + 1,
                    !.pc = "show"]

\* Two calls start together, on a catalog that holds some of the groups.
GroupInit ==
    /\ config = [s \in Sources |-> CfgFull]
    /\ self = NoAttrs
    /\ objects = <<>>
    /\ gather_errors = [s \in Sources |-> 0]
    /\ packages = {}
    /\ last = NoCall
    /\ calls = 0
    /\ groups \in SUBSET {GroupDict(n) : n \in GroupNames}
    /\ workers \in [Workers ->
           {[IdleWorker EXCEPT !.pc = "show", !.names = q] :
               q \in SeqsUpTo(GroupNames, MaxGroups) \ {<<>>}}]

\* lines 481-484: group_show; what it finds is appended, not finding it
\* leads to the except clause.
group_show(w) ==
    /\ workers[w].pc = "show"
    /\ LET wk == workers[w]
           found == GroupShown(groups, GroupDict(wk.names[wk.next]))
       IN  workers' = [workers EXCEPT ![w] =
               IF found = {} THEN [wk EXCEPT !.pc = "create"]
               ELSE Advance(wk, (CHOOSE g \in found : TRUE).id)]
    /\ UNCHANGED <<config, self, objects, gather_errors, packages, last,
                   calls, groups>>

\* lines 485-487: group_create in the except clause; its exception leaves
\* _find_or_create_groups.
group_create(w) ==
    /\ workers[w].pc = "create"
    /\ LET wk == workers[w]
           d == GroupDict(wk.names[wk.next])
       IN  IF GroupCreateRejected(groups, d)
           THEN /\ workers' = [workers EXCEPT ![w].pc = "failed"]
                /\ UNCHANGED groups
           ELSE /\ workers' = [workers EXCEPT ![w] = Advance(wk, d.id)]
                /\ groups' = groups \cup {d}
    /\ UNCHANGED <<config, self, objects, gather_errors, packages, last,
                   calls>>

GroupNext ==
    \/ \E w \in Workers : group_show(w)
    \/ \E w \in Workers : group_create(w)

GroupSpec == GroupInit /\ [][GroupNext]_vars

\* ---------------------------------------------------------------- C11
\* The values of key k in content map d, and the strings of q with ', '
\* between them.
ValuesAt(d, k) == At(d, k).value

RECURSIVE Joined(_, _)
Joined(q, n) ==
    IF n = 0 THEN ""
    ELSE IF n = 1 THEN q[1]
    ELSE Joined(q, n - 1) \o ", " \o q[n]

JoinedAt(d, k) == Joined(ValuesAt(d, k), Len(ValuesAt(d, k)))

\* target field, source key of the mapping table
MappedFrom ==
    {<<"title", "title">>, <<"notes", "description">>,
     <<"maintainer", "publisher">>,
     <<"maintainer_email", "maintainer_email">>, <<"url", "relation">>}

\* The content the last call read has every key import_stage requires.
CompleteContent ==
    /\ last.content_before # NoContent
    /\ \A k \in RequiredKeys \cup {"metadata_modified"} :
          Has(Loads(last.content_before), k)

\* C11: import_stage of a content map that has creator, rights, relation,
\* identifier, date and metadata_modified submits exactly one package_dict
\* (unless the configuration or the package_show lookup fails first); in it
\* author, license_id, license, issued, source_identifier are the values of
\* creator, rights, rights, date, identifier joined with ', '; identifier,
\* references and the url of the single resource are the values of relation
\* joined with ', '; title, notes, maintainer, maintainer_email, url are the
\* first value of title, description, publisher, maintainer_email, relation,
\* and absent when that key is absent or has no value.
C11_PackageDictFromContent ==
    (last.stage = "import" /\ CompleteContent
        /\ last.cause \notin {"config", "package_show"}) =>
        LET d == Loads(last.content_before)
        IN  /\ Cardinality({k \in 1..Len(last.trace) :
                               last.trace[k] = CreateRequest}) = 1
            /\ Len(last.package) = 1
            /\ last.package[1].author = JoinedAt(d, "creator")
            /\ last.package[1].license_id = JoinedAt(d, "rights")
            /\ last.package[1].license = JoinedAt(d, "rights")
            /\ last.package[1].issued = JoinedAt(d, "date")
            /\ last.package[1].source_identifier = JoinedAt(d, "identifier")
            /\ last.package[1].identifier = JoinedAt(d, "relation")
            /\ last.package[1].references = JoinedAt(d, "relation")
            /\ Len(last.package[1].resources) = 1
            /\ last.package[1].resources[1].url = JoinedAt(d, "relation")
            /\ \A m \in MappedFrom :
                  last.package[1][m[1]] =
                      IF Has(d, m[2]) /\ ValuesAt(d, m[2]) # <<>>
                      THEN <<ValuesAt(d, m[2])[1]>>
                      ELSE <<>>

\* C11 witness: a package_dict was submitted for a map with two rights, two
\* relations and no publisher.
C11_Witness ==
    /\ last.stage = "import" /\ CompleteContent /\ last.ret = "True"
    /\ Len(ValuesAt(Loads(last.content_before), "rights")) = 2
    /\ Len(ValuesAt(Loads(last.content_before), "relation")) = 2
    /\ last.package[1].license_id = "rights-1, rights-2"
    /\ last.package[1].url = <<"relation-1">>

\* ---------------------------------------------------------------- C12
\* The tags and extras the last call computed, and the map it read.
Computed == last.package[1]
ContentRead == Loads(last.content_before)

ExtrasOf(k) == {i \in 1..Len(Computed.extras) : Computed.extras[i].key = k}

MappingSources ==
    {"title", "description", "publisher", "maintainer_email", "relation"}

\* The elements of a list value, the ';'-separated pieces of a string.
Pieces(e) == IF e.scalar THEN SplitSemicolon(e.value[1]) ELSE e.value

RECURSIVE PieceCount(_)
PieceCount(entries) ==
    IF entries = <<>> THEN 0
    ELSE PieceCount(Tail(entries))
         + (IF Head(entries).key \in {"type", "subject"}
            THEN Len(Pieces(Head(entries))) ELSE 0)

\* An empty list, or a value whose first element is the empty string.
EmptyValue(e) == e.value = <<>> \/ e.value[1] = ""

UnparsableDate(e) ==
    EndsWith(e.key, "date") /\ ~EmptyValue(e) /\ ParseDate(e.value[1]) = <<>>

\* Mapped keys give no tag and no extra; type and subject give one tag per
\* element or piece and no extra; no extra has a key the map lacks.
KeysPartitioned ==
    /\ \A k \in MappingSources \cup {"type", "subject"} : ExtrasOf(k) = {}
    /\ \A i \in 1..Len(Computed.extras) :
          Has(ContentRead, Computed.extras[i].key)
    /\ Len(Computed.tags) = PieceCount(ContentRead)
    /\ \A j \in 1..Len(ContentRead) :
          ContentRead[j].key \in {"type", "subject"} =>
              \A x \in Range(Pieces(ContentRead[j])) :
                  \E i \in 1..Len(Computed.tags) :
                      Computed.tags[i].name = MungeTag(Truncate(x, TagLimit))

\* Every other key is in extras exactly once, unless it is a date key with a
\* value that cannot be parsed; value(e) is the value the extra must have.
OtherKeysOnce(value(_)) ==
    \A j \in 1..Len(ContentRead) :
        LET e == ContentRead[j]
        IN  e.key \notin MappingSources \cup {"type", "subject"} =>
                IF UnparsableDate(e) THEN ExtrasOf(e.key) = {}
                ELSE /\ Cardinality(ExtrasOf(e.key)) = 1
                     /\ \A i \in ExtrasOf(e.key) :
                           Computed.extras[i].value = value(e)

HasComputed ==
    /\ last.stage \in {"import", "extract_tags_and_extras"}
    /\ last.package # <<>>

\* C12 as stated: _extract_tags_and_extras partitions the keys of the map;
\* every key that is neither a mapping source nor type/subject is in extras
\* exactly once with its first element as value (null when the value is
\* empty), except that a date key whose value cannot be parsed is dropped.
C12_FirstElementAsValue ==
    HasComputed =>
        /\ KeysPartitioned
        /\ OtherKeysOnce(LAMBDA e : IF EmptyValue(e) THEN <<>>
                                    ELSE <<e.value[1]>>)

\* C12 as amended: the same, the value of a date key being its first
\* element parsed and written as an ISO date-time without time zone.
C12_KeysPartitioned ==
    HasComputed =>
        /\ KeysPartitioned
        /\ OtherKeysOnce(LAMBDA e :
               IF EmptyValue(e) THEN <<>>
               ELSE IF EndsWith(e.key, "date") THEN ParseDate(e.value[1])
               ELSE <<e.value[1]>>)

\* C12 witness: _extract_tags_and_extras ran on a map with two creators, a
\* subject given as one string of two pieces and a coverage_date that cannot
\* be parsed: three tags, creator once in extras, coverage_date dropped.
C12_Witness ==
    /\ last.stage = "extract_tags_and_extras"
    /\ Has(ContentRead, "coverage_date")
    /\ UnparsableDate(At(ContentRead, "coverage_date"))
    /\ ExtrasOf("coverage_date") = {}
    /\ Len(ValuesAt(ContentRead, "creator")) = 2
    /\ Cardinality(ExtrasOf("creator")) = 1
    /\ Len(Computed.tags) = 3

\* ---------------------------------------------------------------- C13
\* C13: import_stage returns True only when its create-or-update call
\* succeeded; when that call fails, by raising or by returning a result that
\* is no success, import_stage saves an object error and returns False.
C13_ImportResultIsCatalogResult ==
    last.stage = "import" =>
        /\ last.ret = "True" => last.create = "ok"
        /\ last.create \in {"raise", "none"} =>
               /\ last.ret = "False"
               /\ last.new_errors # <<>>

\* ---------------------------------------------------------------- C14
\* No call has failed; two calls that are done hold the same id for the same
\* name; no two groups of the catalog have one name.
GroupsConsistent ==
    /\ \A w \in Workers : workers[w].pc # "failed"
    /\ \A w1, w2 \in Workers :
          (workers[w1].pc = "done" /\ workers[w2].pc = "done") =>
              \A i \in 1..Len(workers[w1].names) :
                  \A j \in 1..Len(workers[w2].names) :
                      workers[w1].names[i] = workers[w2].names[j] =>
                          workers[w1].group_ids[i] = workers[w2].group_ids[j]
    /\ \A g1, g2 \in groups : g1.name = g2.name => g1 = g2

\* A call that turns to a name whose group exists creates no group for it.
ExistingGroupFound ==
    \A w \in Workers :
        (workers[w].pc = "show" /\ workers'[w] # workers[w]
            /\ GroupShown(groups,
                   GroupDict(workers[w].names[workers[w].next])) # {}) =>
            /\ workers'[w].pc # "create"
            /\ groups' = groups
            /\ Len(workers'[w].group_ids) = Len(workers[w].group_ids) + 1

\* C14: two _find_or_create_groups calls that interleave their group_show
\* and group_create steps both complete without failure, return the id of
\* the same group for the same name and leave at most one group of that
\* name; a call for an existing group finds it and creates nothing.
C14_ConcurrentFindOrCreate ==
    []GroupsConsistent /\ [][ExistingGroupFound]_vars

\* ---------------------------------------------------------------- C15
\* The last call is a fetch_stage on an object whose content an earlier
\* fetch_stage call stored.
Refetch == last.stage = "fetch" /\ last.record_before # <<>>

\* C15: a fetch_stage call that returns True saves no object error; a
\* fetch_stage call on an object that was fetched before does not fail for
\* the configuration, and when getRecord returns the record the earlier
\* call got, it returns True, saves no object error and leaves the content
\* of the object as the earlier call stored it.
C15_FetchIdempotent ==
    /\ (last.stage = "fetch" /\ last.ret = "True") => last.new_errors = <<>>
    /\ Refetch => last.cause # "config"
    /\ (Refetch /\ last.record = last.record_before) =>
          /\ last.ret = "True"
          /\ last.new_errors = <<>>
          /\ LastObject.content = last.content_before

\* C15 witness: the second fetch_stage call on an object got the record of
\* the first and returned True over the same content.
C15_Witness ==
    /\ Refetch /\ last.record = last.record_before
    /\ last.ret = "True"
    /\ last.content_before # NoContent
    /\ LastObject.content = last.content_before
    /\ LastObject.errors = <<>>

====
